---- MODULE Spec2Model ----
(* Model of the voting backend in src/server.js: the three collections     *)
(* (companies, voting sessions, votes), the admin token set, the clock the *)
(* handlers read, and one action per request handler.                      *)
EXTENDS Integers, Sequences, FiniteSets, TLC

(***************************************************************************)
(* Bounds of the model.                                                    *)
(***************************************************************************)
MaxTokens == 1
MaxCompanies == 1
MaxSessions == 2
MaxVotes == 2
MaxHours == 3
MaxLatency == 1000

(***************************************************************************)
(* Time, in milliseconds as Date.now() returns it.                         *)
(***************************************************************************)
OneSecond == 1000
OneMinute == 60 * OneSecond
OneHour == 60 * OneMinute
\* 3 * 60 * 60 * 1000, the cooldown of POST /api/vote
ThreeHours == 3 * 60 * 60 * 1000

\* the instants at which the model lets the clock be read
Offsets == {0, OneSecond}
Times == {h * OneHour + o : h \in 0..MaxHours, o \in Offsets}

\* Math.ceil(a / b) for b > 0
Ceil(a, b) == 0 - ((0 - a) \div b)

(***************************************************************************)
(* JSON values of a vote's answer map.                                     *)
(***************************************************************************)
Absent == [t |-> "absent", s |-> "", l |-> <<>>, n |-> 0]
Str(x) == [t |-> "str", s |-> x, l |-> <<>>, n |-> 0]
List(xs) == [t |-> "list", s |-> "", l |-> xs, n |-> 0]
Num(k) == [t |-> "num", s |-> "", l |-> <<>>, n |-> k]

\* JavaScript truthiness of a value (`!voteValue`, `if (voteValue)`)
Truthy(v) ==
  CASE v.t = "absent" -> FALSE
    [] v.t = "str" -> v.s # ""
    [] v.t = "num" -> v.n # 0
    [] OTHER -> TRUE

\* String.prototype.trim on the strings the model uses
Trim(s) ==
  CASE s = " " -> ""
    [] s = " ok " -> "ok"
    [] OTHER -> s

\* companies, sessions, votes: the three collections, in insertion order
\* adminTokens: the process-wide token set; issued: the tokens login has
\* returned; companySeq: the number of company ids minted so far
\* now: the clock Date.now() reads; inflight: the handlers
\* suspended at an await, by slot; res: the last response sent, with the operation
\* and the Authorization header of the request it answers
VARIABLES companies, sessions, votes, adminTokens, issued, companySeq, now,
          inflight, res

vars == <<companies, sessions, votes, adminTokens, issued, companySeq, now,
          inflight, res>>
db == <<companies, sessions, votes>>


Range(f) == {f[i] : i \in DOMAIN f}

(***************************************************************************)
(* Admin session manager.                                                  *)
(***************************************************************************)
\* process.env.ADMIN_PASSWORD || 'nye2025'
ADMIN_PASSWORD == "nye2025"

\* An Authorization header: absent, or a string made of `bearer` copies of
\* "Bearer " followed by the token text `tok` (0 is the empty text; minted
\* tokens are 1, 2, ...; hex tokens never contain "Bearer ").
NoHeader == [present |-> FALSE, bearer |-> 0, tok |-> 0]
Header(b, k) == [present |-> TRUE, bearer |-> b, tok |-> k]

\* String.prototype.replace('Bearer ', ''): drops the first occurrence only
StripBearer(h) ==
  [bearer |-> IF h.bearer > 0 THEN h.bearer - 1 ELSE 0, tok |-> h.tok]

\* a variant that lets any non-empty token through
authenticateAdmin_NoSetLookup(h, tokens) ==
  /\ h.present
  /\ LET token == StripBearer(h)
     IN  ~(token.bearer = 0 /\ token.tok = 0)

\* TRUE when next() is called, FALSE when the request is answered 401
authenticateAdmin(h, tokens) ==
  /\ h.present
  /\ LET token == StripBearer(h)
     IN  /\ ~(token.bearer = 0 /\ token.tok = 0)
         /\ token.bearer = 0 /\ token.tok \in tokens

Reply(op, h, st, m) == [op |-> op, auth |-> h, status |-> st, msg |-> m]
Unauthorized(op, h) == Reply(op, h, 401, "Unauthorized")

\* POST /api/admin/login
Login(password) ==
  /\ IF password # ADMIN_PASSWORD
       THEN /\ res' = [op |-> "login", auth |-> NoHeader, status |-> 401,
                       msg |-> "Invalid password", password |-> password]
            /\ UNCHANGED <<adminTokens, issued>>
       ELSE /\ Cardinality(adminTokens) < MaxTokens
            /\ LET token == Cardinality(adminTokens) + 1
               IN  /\ adminTokens' = adminTokens \cup {token}
                   /\ issued' = issued \cup {token}
                   /\ res' = [op |-> "login", auth |-> NoHeader, status |-> 200,
                              msg |-> "token", password |-> password, token |-> token]
  /\ UNCHANGED <<db, companySeq, now, inflight>>

\* GET /api/admin/verify
Verify(h) ==
  /\ res' = IF authenticateAdmin(h, adminTokens)
              THEN Reply("verify", h, 200, "valid") ELSE Unauthorized("verify", h)
  /\ UNCHANGED <<db, adminTokens, issued, companySeq, now, inflight>>

(***************************************************************************)
(* Companies.                                                              *)
(***************************************************************************)
HasCompany(cs, companyId) == \E i \in DOMAIN cs : cs[i].id = companyId

\* POST /api/admin/create-company
CreateCompany(h, name) ==
  /\ IF ~authenticateAdmin(h, adminTokens)
       THEN res' = Unauthorized("create-company", h) /\ UNCHANGED <<companies, companySeq>>
       ELSE IF name = ""
         THEN /\ res' = Reply("create-company", h, 400, "Company name is required")
              /\ UNCHANGED <<companies, companySeq>>
         ELSE /\ companySeq < MaxCompanies
              /\ companySeq' = companySeq + 1
              /\ companies' = Append(companies, [id |-> companySeq + 1, name |-> name])
              /\ res' = Reply("create-company", h, 200, "Company created successfully")
  /\ UNCHANGED <<sessions, votes, adminTokens, issued, now, inflight>>

\* GET /api/admin/companies
ListCompanies(h) ==
  /\ res' = IF authenticateAdmin(h, adminTokens)
              THEN [op |-> "list-companies", auth |-> h, status |-> 200, msg |-> "companies", n |-> Len(companies)]
              ELSE Unauthorized("list-companies", h)
  /\ UNCHANGED <<db, adminTokens, issued, companySeq, now, inflight>>

\* DELETE /api/admin/companies/:companyId, handled without interruption
DeleteCompany(h, companyId) ==
  /\ IF ~authenticateAdmin(h, adminTokens)
       THEN res' = Unauthorized("delete-company", h) /\ UNCHANGED <<companies, votes>>
       ELSE IF ~HasCompany(companies, companyId)
         THEN /\ res' = Reply("delete-company", h, 404, "Company not found")
              /\ UNCHANGED <<companies, votes>>
         ELSE /\ votes' = SelectSeq(votes, LAMBDA v : v.companyId # companyId)
              /\ companies' = SelectSeq(companies, LAMBDA c : c.id # companyId)
              /\ res' = Reply("delete-company", h, 200, "Company and all related votes deleted successfully")
  /\ UNCHANGED <<sessions, adminTokens, issued, companySeq, now, inflight>>

(***************************************************************************)
(* Voting sessions.  A section of a request body is a record               *)
(*   [id, label, type, required, options, hasMin, minSelections, hasMax,   *)
(*    maxSelections]                                                       *)
(* where required is "true", "false" or "undefined", options is the list   *)
(* of option names (an absent options field and an empty list take the     *)
(* same branches and are stored alike) and hasMin / hasMax tell whether    *)
(* the number was given.                                                   *)
(***************************************************************************)
SectionTypes == {"single-select", "multi-select", "text-input"}
IsSelect(type) == type = "single-select" \/ type = "multi-select"

\* sectionSchema: the defaults mongoose applies to fields left undefined
StoreSection(s) ==
  [id |-> s.id, label |-> s.label, type |-> s.type,
   required |-> IF s.required = "undefined" THEN TRUE ELSE s.required = "true",
   options |-> s.options,
   minSelections |-> IF s.hasMin THEN s.minSelections ELSE 1,
   maxSelections |-> IF s.hasMax THEN s.maxSelections ELSE 1]

\* section.minSelections && section.maxSelections && min > max
MinMaxRejected(s) ==
  /\ s.hasMin /\ s.minSelections # 0
  /\ s.hasMax /\ s.maxSelections # 0
  /\ s.minSelections > s.maxSelections

\* the body of the `for (const section of sections)` loop of create-voting
SectionError(s) ==
  IF s.id = "" \/ s.label = "" \/ s.type = ""
    THEN "Each section must have id, label, and type"
  ELSE IF s.type \notin SectionTypes
    THEN "Invalid section type"
  ELSE IF IsSelect(s.type) /\ Len(s.options) = 0
    THEN "Section must have at least one option"
  ELSE IF IsSelect(s.type) /\ \E i \in DOMAIN s.options : s.options[i] = ""
    THEN "Each option must have a name"
  ELSE IF s.type = "multi-select" /\ MinMaxRejected(s)
    THEN "minSelections cannot be greater than maxSelections"
  ELSE "ok"

\* the first failing section of the loop, 0 when every section passes
FirstBadSection(sections) ==
  IF \E i \in DOMAIN sections : SectionError(sections[i]) # "ok"
    THEN CHOOSE i \in DOMAIN sections :
           /\ SectionError(sections[i]) # "ok"
           /\ \A j \in 1..(i - 1) : SectionError(sections[j]) = "ok"
    ELSE 0

\* the checks of create-voting up to the first database write
CreateVotingError(body) ==
  IF body.title = "" \/ ~body.hasSections
    THEN "Invalid voting session data"
  ELSE IF Len(body.sections) = 0
    THEN "At least one section is required"
  ELSE IF FirstBadSection(body.sections) # 0
    THEN SectionError(body.sections[FirstBadSection(body.sections)])
  ELSE "ok"

\* VotingSession.updateMany({}, { isActive: false })
DeactivateAll(ss) == [i \in DOMAIN ss |-> [ss[i] EXCEPT !.isActive = FALSE]]

\* new VotingSession({ id, title, sections, isActive: true })
NewVoting(body, id) ==
  [id |-> id, title |-> body.title,
   sections |-> [i \in DOMAIN body.sections |-> StoreSection(body.sections[i])],
   isActive |-> TRUE]

\* newVoting.save() is rejected by mongoose: optionSchema requires a name
\* (the handler has checked the options of select sections only)
SaveRejects(body) ==
  \E i \in DOMAIN body.sections :
    \E k \in DOMAIN body.sections[i].options : body.sections[i].options[k] = ""

CreateReply(h, body, st, m) ==
  [op |-> "create-voting", auth |-> h, status |-> st, msg |-> m, body |-> body]

\* POST /api/admin/create-voting, handled without interruption
CreateVoting(h, body) ==
  /\ IF ~authenticateAdmin(h, adminTokens)
       THEN res' = CreateReply(h, body, 401, "Unauthorized") /\ UNCHANGED sessions
       ELSE IF CreateVotingError(body) # "ok"
         THEN /\ res' = CreateReply(h, body, 400, CreateVotingError(body))
              /\ UNCHANGED sessions
       ELSE IF SaveRejects(body)
         THEN /\ sessions' = DeactivateAll(sessions)
              /\ res' = CreateReply(h, body, 500, "Server error")
         ELSE /\ Len(sessions) < MaxSessions
              /\ sessions' = Append(DeactivateAll(sessions),
                                    NewVoting(body, Len(sessions) + 1))
              /\ res' = CreateReply(h, body, 200, "Global voting session created successfully")
  /\ UNCHANGED <<companies, votes, adminTokens, issued, companySeq, now, inflight>>

\* VotingSession.findOne({ id }): index of the first match, 0 for null
FindSession(ss, id) ==
  IF \E i \in DOMAIN ss : ss[i].id = id
    THEN CHOOSE i \in DOMAIN ss :
           ss[i].id = id /\ \A j \in 1..(i - 1) : ss[j].id # id
    ELSE 0

\* getCurrentVoting: the newest active session (sessions are kept in order
\* of creation, which is the order of createdAt), 0 for null
getCurrentVoting(ss) ==
  IF \E i \in DOMAIN ss : ss[i].isActive
    THEN CHOOSE i \in DOMAIN ss :
           ss[i].isActive /\ \A j \in (i + 1)..Len(ss) : ~ss[j].isActive
    ELSE 0

\* session.isActive = !session.isActive; await session.save()
ToggleSession(ss, i) == [ss EXCEPT ![i].isActive = ~ss[i].isActive]

\* PATCH /api/admin/voting/:votingSessionId/toggle, handled without interruption
Toggle(h, votingSessionId) ==
  /\ IF ~authenticateAdmin(h, adminTokens)
       THEN res' = Unauthorized("toggle", h) /\ UNCHANGED sessions
       ELSE IF FindSession(sessions, votingSessionId) = 0
         THEN /\ res' = Reply("toggle", h, 404, "Voting session not found")
              /\ UNCHANGED sessions
         ELSE /\ sessions' = ToggleSession(sessions, FindSession(sessions, votingSessionId))
              /\ res' = Reply("toggle", h, 200, "Voting session toggled")
  /\ UNCHANGED <<companies, votes, adminTokens, issued, companySeq, now, inflight>>

\* POST /api/admin/reset-voting/:votingSessionId
ResetVoting(h, votingSessionId) ==
  /\ IF ~authenticateAdmin(h, adminTokens)
       THEN res' = Unauthorized("reset-voting", h) /\ UNCHANGED votes
       ELSE IF FindSession(sessions, votingSessionId) = 0
         THEN /\ res' = Reply("reset-voting", h, 404, "Voting session not found")
              /\ UNCHANGED votes
         ELSE /\ votes' = SelectSeq(votes, LAMBDA v : v.votingSessionId # votingSessionId)
              /\ res' = [op |-> "reset-voting", auth |-> h, status |-> 200, msg |-> "Voting session reset successfully",
                         n |-> Len(votes) - Len(votes')]
  /\ UNCHANGED <<companies, sessions, adminTokens, issued, companySeq, now, inflight>>

\* Vote.countDocuments({ votingSessionId, companyId })
CountVotes(vs, votingSessionId, companyId) ==
  Cardinality({i \in DOMAIN vs : /\ vs[i].votingSessionId = votingSessionId
                                 /\ vs[i].companyId = companyId})

\* GET /api/admin/stats
Stats(h) ==
  /\ res' = IF ~authenticateAdmin(h, adminTokens) THEN Unauthorized("stats", h)
            ELSE IF getCurrentVoting(sessions) = 0
              THEN [op |-> "stats", auth |-> h, status |-> 200, msg |-> "stats", n |-> 0, companies |-> <<>>]
            ELSE LET cur == sessions[getCurrentVoting(sessions)].id
                 IN  [op |-> "stats", auth |-> h, status |-> 200, msg |-> "stats",
                      n |-> Cardinality({i \in DOMAIN votes : votes[i].votingSessionId = cur}),
                      companies |-> [i \in DOMAIN companies |->
                                       CountVotes(votes, cur, companies[i].id)]]
  /\ UNCHANGED <<db, adminTokens, issued, companySeq, now, inflight>>

(***************************************************************************)
(* POST /api/vote.  A request body is a record                             *)
(*   [companyId, votingSessionId, deviceId, hasVotes, votes]               *)
(* where hasVotes tells whether `votes` is an object and votes maps        *)
(* section ids to JSON values (Absent for a key the object lacks).         *)
(***************************************************************************)
Slots == {1, 2}
Idle == [pc |-> "idle"]
Pending == {r \in Slots : inflight[r].pc # "idle"}
\* the slots whose POST /api/vote handler may still save a vote
PendingVotes == {r \in Slots : inflight[r].pc \in {"company", "session", "throttle", "save"}}
\* the slots whose create-voting handler may still save a session
PendingCreates == {r \in Slots : inflight[r].pc \in {"deactivate", "save-session"}}

\* votes[section.id]
Answer(answers, id) == IF id \in DOMAIN answers THEN answers[id] ELSE Absent

\* section.options.map(opt => opt.name)
validOptions(section) == Range(section.options)

\* a variant that rejects an empty value of a select section, not a missing one
RequiredError_AbsentPasses(section, voteValue) ==
  IF ~section.required THEN "ok"
  ELSE IF section.type = "text-input"
    THEN IF ~Truthy(voteValue) \/ (voteValue.t = "str" /\ Trim(voteValue.s) = "")
           THEN "Please provide a value for" ELSE "ok"
    ELSE IF ~Truthy(voteValue) /\ voteValue.t # "absent"
           THEN "Please select at least one option for" ELSE "ok"

\* the `if (section.required)` block of the validation loop
RequiredError(section, voteValue) ==
  IF ~section.required THEN "ok"
  ELSE IF section.type = "text-input"
    THEN IF ~Truthy(voteValue) \/ (voteValue.t = "str" /\ Trim(voteValue.s) = "")
           THEN "Please provide a value for" ELSE "ok"
    ELSE IF ~Truthy(voteValue) \/ (voteValue.t = "list" /\ Len(voteValue.l) = 0)
           THEN "Please select at least one option for" ELSE "ok"

\* a variant without the maxSelections comparison
TypeError_NoMax(section, voteValue) ==
  IF section.type = "single-select"
    THEN IF Truthy(voteValue) /\ ~(voteValue.t = "str" /\ voteValue.s \in validOptions(section))
           THEN "Invalid option selected for" ELSE "ok"
  ELSE IF section.type = "multi-select"
    THEN IF ~Truthy(voteValue) THEN "ok"
         ELSE IF voteValue.t # "list" THEN "must be an array"
         ELSE IF Len(voteValue.l) < section.minSelections THEN "Please select at least"
         ELSE IF \E i \in DOMAIN voteValue.l : voteValue.l[i] \notin validOptions(section)
           THEN "Invalid option selected for"
         ELSE "ok"
  ELSE "ok"

\* a variant whose maxSelections comparison is >=
TypeError_MaxExclusive(section, voteValue) ==
  IF section.type = "single-select"
    THEN IF Truthy(voteValue) /\ ~(voteValue.t = "str" /\ voteValue.s \in validOptions(section))
           THEN "Invalid option selected for" ELSE "ok"
  ELSE IF section.type = "multi-select"
    THEN IF ~Truthy(voteValue) THEN "ok"
         ELSE IF voteValue.t # "list" THEN "must be an array"
         ELSE IF Len(voteValue.l) < section.minSelections THEN "Please select at least"
         ELSE IF Len(voteValue.l) >= section.maxSelections THEN "Please select at most"
         ELSE IF \E i \in DOMAIN voteValue.l : voteValue.l[i] \notin validOptions(section)
           THEN "Invalid option selected for"
         ELSE "ok"
  ELSE "ok"

\* the `if (section.type === ...)` block of the validation loop
TypeError(section, voteValue) ==
  IF section.type = "single-select"
    THEN IF Truthy(voteValue) /\ ~(voteValue.t = "str" /\ voteValue.s \in validOptions(section))
           THEN "Invalid option selected for" ELSE "ok"
  ELSE IF section.type = "multi-select"
    THEN IF ~Truthy(voteValue) THEN "ok"
         ELSE IF voteValue.t # "list" THEN "must be an array"
         ELSE IF Len(voteValue.l) < section.minSelections THEN "Please select at least"
         ELSE IF Len(voteValue.l) > section.maxSelections THEN "Please select at most"
         ELSE IF \E i \in DOMAIN voteValue.l : voteValue.l[i] \notin validOptions(section)
           THEN "Invalid option selected for"
         ELSE "ok"
  ELSE "ok"

\* one iteration of `for (const section of votingSession.sections)`
VoteSectionError(section, voteValue) ==
  IF RequiredError(section, voteValue) # "ok"
    THEN RequiredError(section, voteValue)
    ELSE TypeError(section, voteValue)

\* the first section the loop returns at, 0 when it runs to its end
FirstFailing(sections, answers) ==
  IF \E i \in DOMAIN sections :
       VoteSectionError(sections[i], Answer(answers, sections[i].id)) # "ok"
    THEN CHOOSE i \in DOMAIN sections :
           /\ VoteSectionError(sections[i], Answer(answers, sections[i].id)) # "ok"
           /\ \A j \in 1..(i - 1) :
                VoteSectionError(sections[j], Answer(answers, sections[j].id)) = "ok"
    ELSE 0

\* VotingSession.findOne({ id: votingSessionId, isActive: true })
FindActiveSession(ss, id) ==
  IF \E i \in DOMAIN ss : ss[i].id = id /\ ss[i].isActive
    THEN CHOOSE i \in DOMAIN ss :
           /\ ss[i].id = id /\ ss[i].isActive
           /\ \A j \in 1..(i - 1) : ~(ss[j].id = id /\ ss[j].isActive)
    ELSE 0

\* a variant whose timestamp comparison is $lte
RecentVote_Reversed(vs, deviceId, votingSessionId, threeHoursAgo) ==
  LET hit(i) == /\ vs[i].deviceId = deviceId
                /\ vs[i].votingSessionId = votingSessionId
                /\ vs[i].timestamp <= threeHoursAgo
  IN  IF \E i \in DOMAIN vs : hit(i)
        THEN CHOOSE i \in DOMAIN vs : hit(i) /\ \A j \in 1..(i - 1) : ~hit(j)
        ELSE 0

\* Vote.findOne({ deviceId, votingSessionId, timestamp: { $gte: threeHoursAgo } })
RecentVote(vs, deviceId, votingSessionId, threeHoursAgo) ==
  LET hit(i) == /\ vs[i].deviceId = deviceId
                /\ vs[i].votingSessionId = votingSessionId
                /\ vs[i].timestamp >= threeHoursAgo
  IN  IF \E i \in DOMAIN vs : hit(i)
        THEN CHOOSE i \in DOMAIN vs : hit(i) /\ \A j \in 1..(i - 1) : ~hit(j)
        ELSE 0

\* a variant that leaves out the three hours
TimeLeft_FromCutoff(timestamp, t) == Ceil(timestamp - t, OneMinute)

\* Math.ceil((recentVote.timestamp.getTime() + 3h - Date.now()) / 1000 / 60)
TimeLeft(timestamp, t) == Ceil(timestamp + ThreeHours - t, OneMinute)

\* the handler up to `await Company.findOne`
VoteStart(r, body) ==
  /\ inflight[r].pc = "idle"
  /\ Len(votes) + Cardinality(PendingVotes) < MaxVotes
  /\ IF body.deviceId = ""
       THEN /\ res' = Reply("vote", NoHeader, 400, "Device ID is required")
            /\ UNCHANGED inflight
       ELSE /\ inflight' = [inflight EXCEPT ![r] = [pc |-> "company", body |-> body]]
            /\ UNCHANGED res
  /\ UNCHANGED <<db, adminTokens, issued, companySeq, now>>

\* Company.findOne returns; the handler runs up to `await VotingSession.findOne`
VoteCompany(r) ==
  /\ inflight[r].pc = "company"
  /\ IF ~HasCompany(companies, inflight[r].body.companyId)
       THEN /\ res' = Reply("vote", NoHeader, 404, "Company not found")
            /\ inflight' = [inflight EXCEPT ![r] = Idle]
       ELSE /\ inflight' = [inflight EXCEPT ![r].pc = "session"]
            /\ UNCHANGED res
  /\ UNCHANGED <<db, adminTokens, issued, companySeq, now>>

\* VotingSession.findOne returns; the handler computes threeHoursAgo and
\* runs up to `await Vote.findOne`
VoteSession(r) ==
  /\ inflight[r].pc = "session"
  /\ LET i == FindActiveSession(sessions, inflight[r].body.votingSessionId)
     IN  IF i = 0
           THEN /\ res' = Reply("vote", NoHeader, 400, "Invalid or expired voting session")
                /\ inflight' = [inflight EXCEPT ![r] = Idle]
           ELSE /\ inflight' = [inflight EXCEPT ![r] =
                                  [pc |-> "throttle", body |-> inflight[r].body,
                                   votingSession |-> sessions[i],
                                   threeHoursAgo |-> now - ThreeHours]]
                /\ UNCHANGED res
  /\ UNCHANGED <<db, adminTokens, issued, companySeq, now>>

\* Vote.findOne returns; the handler answers 429, or validates the answers
\* and runs up to `await newVote.save()`
VoteThrottle(r) ==
  /\ inflight[r].pc = "throttle"
  /\ LET body == inflight[r].body
         sections == inflight[r].votingSession.sections
         recentVote == RecentVote(votes, body.deviceId, body.votingSessionId,
                                  inflight[r].threeHoursAgo)
         bad == FirstFailing(sections, body.votes)
     IN  IF recentVote # 0
           THEN /\ res' = [op |-> "vote", auth |-> NoHeader, status |-> 429,
                           msg |-> "You can vote again in",
                           timeLeft |-> TimeLeft(votes[recentVote].timestamp, now)]
                /\ inflight' = [inflight EXCEPT ![r] = Idle]
         ELSE IF ~body.hasVotes
           THEN /\ res' = Reply("vote", NoHeader, 400, "Invalid votes data")
                /\ inflight' = [inflight EXCEPT ![r] = Idle]
         ELSE IF bad # 0
           THEN /\ res' = [op |-> "vote", auth |-> NoHeader, status |-> 400,
                           msg |-> VoteSectionError(sections[bad],
                                                    Answer(body.votes, sections[bad].id)),
                           label |-> sections[bad].label]
                /\ inflight' = [inflight EXCEPT ![r] = Idle]
         ELSE /\ inflight' = [inflight EXCEPT ![r] =
                                [pc |-> "save", body |-> body,
                                 newVote |-> [votingSessionId |-> body.votingSessionId,
                                              companyId |-> body.companyId,
                                              votes |-> body.votes,
                                              timestamp |-> now,
                                              deviceId |-> body.deviceId]]]
              /\ UNCHANGED res
  /\ UNCHANGED <<db, adminTokens, issued, companySeq, now>>

\* a variant that runs the recent-vote query again before it saves
VoteSave_Recheck(r) ==
  /\ inflight[r].pc = "save"
  /\ IF RecentVote(votes, inflight[r].body.deviceId, inflight[r].body.votingSessionId,
                   now - ThreeHours) # 0
       THEN /\ res' = Reply("vote", NoHeader, 429, "You can vote again in")
            /\ UNCHANGED votes
       ELSE /\ votes' = Append(votes, inflight[r].newVote)
            /\ res' = Reply("vote", NoHeader, 200, "Vote submitted successfully")
  /\ inflight' = [inflight EXCEPT ![r] = Idle]
  /\ UNCHANGED <<companies, sessions, adminTokens, issued, companySeq, now>>

\* newVote.save() completes and the handler answers 200
VoteSave(r) ==
  /\ inflight[r].pc = "save"
  /\ votes' = Append(votes, inflight[r].newVote)
  /\ res' = Reply("vote", NoHeader, 200, "Vote submitted successfully")
  /\ inflight' = [inflight EXCEPT ![r] = Idle]
  /\ UNCHANGED <<companies, sessions, adminTokens, issued, companySeq, now>>

VoteReply(body, st, m) ==
  [op |-> "vote", auth |-> NoHeader, status |-> st, msg |-> m, body |-> body]

\* POST /api/vote handled without interruption, the clock standing still
Vote(body) ==
  /\ Pending = {}
  /\ LET i == FindActiveSession(sessions, body.votingSessionId)
         sections == sessions[i].sections
         recentVote == RecentVote(votes, body.deviceId, body.votingSessionId,
                                  now - ThreeHours)
         bad == FirstFailing(sections, body.votes)
     IN  IF body.deviceId = ""
           THEN res' = VoteReply(body, 400, "Device ID is required") /\ UNCHANGED votes
         ELSE IF ~HasCompany(companies, body.companyId)
           THEN res' = VoteReply(body, 404, "Company not found") /\ UNCHANGED votes
         ELSE IF i = 0
           THEN /\ res' = VoteReply(body, 400, "Invalid or expired voting session")
                /\ UNCHANGED votes
         ELSE IF recentVote # 0
           THEN /\ res' = [op |-> "vote", auth |-> NoHeader, status |-> 429,
                           msg |-> "You can vote again in", body |-> body,
                           timeLeft |-> TimeLeft(votes[recentVote].timestamp, now)]
                /\ UNCHANGED votes
         ELSE IF ~body.hasVotes
           THEN res' = VoteReply(body, 400, "Invalid votes data") /\ UNCHANGED votes
         ELSE IF bad # 0
           THEN /\ res' = [op |-> "vote", auth |-> NoHeader, status |-> 400,
                           msg |-> VoteSectionError(sections[bad],
                                                    Answer(body.votes, sections[bad].id)),
                           body |-> body, label |-> sections[bad].label]
                /\ UNCHANGED votes
         ELSE /\ Len(votes) < MaxVotes
              /\ votes' = Append(votes, [votingSessionId |-> body.votingSessionId,
                                         companyId |-> body.companyId,
                                         votes |-> body.votes,
                                         timestamp |-> now,
                                         deviceId |-> body.deviceId])
              /\ res' = VoteReply(body, 200, "Vote submitted successfully")
  /\ UNCHANGED <<companies, sessions, adminTokens, issued, companySeq, now, inflight>>

\* time passes; while a handler waits for the database it passes in steps
\* of at most MaxLatency
Tick(u) ==
  /\ u \in Times /\ u > now
  /\ Pending # {} => u - now <= MaxLatency
  /\ now' = u
  /\ UNCHANGED <<db, adminTokens, issued, companySeq, inflight, res>>

(***************************************************************************)
(* The tally of GET /api/results/:votingSessionId and of its company       *)
(* scoped variant (the two handlers run the same code on different vote    *)
(* lists).  Section ids are distinct in the sessions the model creates.    *)
(***************************************************************************)
\* option names that are canonical array indices, and their numeric value:
\* a JavaScript object enumerates such keys first, in ascending order
IsIndexKey(name) == name \in {"1", "2"}
IndexValue(name) == IF name = "1" THEN 1 ELSE 2

\* the property key a value is converted to in options[sectionVote]
ToKey(v) ==
  CASE v.t = "str" -> v.s
    [] v.t = "list" /\ Len(v.l) = 1 -> v.l[1]
    [] v.t = "num" /\ v.n = 1 -> "1"
    [] v.t = "num" /\ v.n = 2 -> "2"
    [] OTHER -> "[no key]"

\* names in order of first assignment: assigning a key again keeps its place
RECURSIVE FirstAssigned(_)
FirstAssigned(names) ==
  IF names = <<>> THEN <<>>
  ELSE LET front == FirstAssigned(SubSeq(names, 1, Len(names) - 1))
           last == names[Len(names)]
       IN  IF last \in Range(front) THEN front ELSE Append(front, last)

\* ascending order of a set of index keys
RECURSIVE IndexKeysAscending(_)
IndexKeysAscending(keys) ==
  IF keys = {} THEN <<>>
  ELSE LET least == CHOOSE k \in keys : \A o \in keys : IndexValue(k) <= IndexValue(o)
       IN  <<least>> \o IndexKeysAscending(keys \ {least})

\* Object.entries(sectionData.options): the keys of the object built by
\* section.options.forEach(option => results[section.id].options[option.name] = ...)
OptionKeys(section) ==
  LET assigned == FirstAssigned(section.options)
  IN  IndexKeysAscending({k \in Range(assigned) : IsIndexKey(k)})
        \o SelectSeq(assigned, LAMBDA k : ~IsIndexKey(k))

\* the number of elements of list l equal to name
Occurrences(l, name) == Cardinality({k \in DOMAIN l : l[k] = name})

\* what one vote document adds to options[name].votes of a section
Increment(section, voteData, name) ==
  LET sectionVote == Answer(voteData, section.id)
  IN  IF section.type = "single-select"
        THEN IF Truthy(sectionVote) /\ ToKey(sectionVote) = name THEN 1 ELSE 0
      ELSE IF section.type = "multi-select" /\ sectionVote.t = "list"
        THEN Occurrences(sectionVote.l, name)
      ELSE 0

\* options[name].votes after allVotes.forEach
RECURSIVE OptionVotes(_, _, _)
OptionVotes(section, vs, name) ==
  IF vs = <<>> THEN 0
  ELSE OptionVotes(section, SubSeq(vs, 1, Len(vs) - 1), name)
         + Increment(section, vs[Len(vs)].votes, name)

\* Array.prototype.sort((a, b) => b.votes - a.votes), which is stable:
\* insertion of each entry after the entries of at least its count
RECURSIVE SortByVotes(_)
SortByVotes(entries) ==
  IF entries = <<>> THEN <<>>
  ELSE LET front == SortByVotes(SubSeq(entries, 1, Len(entries) - 1))
           last == entries[Len(entries)]
           keep == Cardinality({i \in DOMAIN front : front[i].votes >= last.votes})
       IN  SubSeq(front, 1, keep) \o <<last>> \o SubSeq(front, keep + 1, Len(front))

\* sectionVote.trim() throws for a truthy value that is not a string
TrimThrows(section, voteData) ==
  LET sectionVote == Answer(voteData, section.id)
  IN  section.type = "text-input" /\ Truthy(sectionVote) /\ sectionVote.t # "str"

\* the responses pushed for a text-input section, in vote order
RECURSIVE Responses(_, _)
Responses(section, vs) ==
  IF vs = <<>> THEN <<>>
  ELSE LET front == Responses(section, SubSeq(vs, 1, Len(vs) - 1))
           last == vs[Len(vs)]
           sectionVote == Answer(last.votes, section.id)
       IN  IF Truthy(sectionVote) /\ sectionVote.t = "str" /\ Trim(sectionVote.s) # ""
             THEN Append(front, [response |-> sectionVote.s, timestamp |-> last.timestamp])
             ELSE front

\* formattedResults[section.id]
SectionResult(section, vs) ==
  IF section.type = "text-input"
    THEN [type |-> section.type, label |-> section.label,
          responses |-> Responses(section, vs)]
    ELSE [type |-> section.type, label |-> section.label,
          options |-> SortByVotes(
            [i \in DOMAIN OptionKeys(section) |->
               [name |-> OptionKeys(section)[i],
                votes |-> OptionVotes(section, vs, OptionKeys(section)[i])]])]

\* the body of the try block once the session and the votes are loaded:
\* the 500 of the catch block, or the tally
Tally(op, votingSession, vs) ==
  IF \E i \in DOMAIN vs, j \in DOMAIN votingSession.sections :
       TrimThrows(votingSession.sections[j], vs[i].votes)
    THEN Reply(op, NoHeader, 500, "Server error")
    ELSE [op |-> op, auth |-> NoHeader, status |-> 200, msg |-> "results",
          results |-> [j \in DOMAIN votingSession.sections |->
                         SectionResult(votingSession.sections[j], vs)],
          totalVotes |-> Len(vs)]

\* Vote.find({ votingSessionId })
VotesOfSession(vs, votingSessionId) ==
  SelectSeq(vs, LAMBDA v : v.votingSessionId = votingSessionId)

\* Vote.find({ votingSessionId, companyId })
VotesOfCompany(vs, votingSessionId, companyId) ==
  SelectSeq(vs, LAMBDA v : v.votingSessionId = votingSessionId /\ v.companyId = companyId)

\* what GET /api/results/:votingSessionId answers in the current state
Results(votingSessionId) ==
  IF FindSession(sessions, votingSessionId) = 0
    THEN Reply("results", NoHeader, 404, "Voting session not found")
    ELSE Tally("results", sessions[FindSession(sessions, votingSessionId)],
               VotesOfSession(votes, votingSessionId))

\* what GET /api/results/:votingSessionId/company/:companyId answers
CompanyResults(votingSessionId, companyId) ==
  IF FindSession(sessions, votingSessionId) = 0
    THEN Reply("company-results", NoHeader, 404, "Voting session not found")
  ELSE IF ~HasCompany(companies, companyId)
    THEN Reply("company-results", NoHeader, 404, "Company not found")
  ELSE Tally("company-results", sessions[FindSession(sessions, votingSessionId)],
             VotesOfCompany(votes, votingSessionId, companyId))

\* GET /api/results/:votingSessionId
GetResults(votingSessionId) ==
  /\ res' = Results(votingSessionId)
  /\ UNCHANGED <<db, adminTokens, issued, companySeq, now, inflight>>

\* GET /api/results/:votingSessionId/company/:companyId
GetCompanyResults(votingSessionId, companyId) ==
  /\ res' = CompanyResults(votingSessionId, companyId)
  /\ UNCHANGED <<db, adminTokens, issued, companySeq, now, inflight>>

(***************************************************************************)
(* The admin handlers that write more than once, step by step: each step   *)
(* is one awaited database call and the code that runs when it returns.    *)
(***************************************************************************)
\* create-voting up to `await VotingSession.updateMany`
CreateVotingStart(r, h, body) ==
  /\ inflight[r].pc = "idle"
  /\ IF ~authenticateAdmin(h, adminTokens)
       THEN res' = CreateReply(h, body, 401, "Unauthorized") /\ UNCHANGED inflight
       ELSE IF CreateVotingError(body) # "ok"
         THEN /\ res' = CreateReply(h, body, 400, CreateVotingError(body))
              /\ UNCHANGED inflight
         ELSE /\ Len(sessions) + Cardinality(PendingCreates) < MaxSessions
              /\ inflight' = [inflight EXCEPT ![r] =
                                [pc |-> "deactivate", auth |-> h, body |-> body]]
              /\ UNCHANGED res
  /\ UNCHANGED <<db, adminTokens, issued, companySeq, now>>

\* updateMany({}, { isActive: false }) runs; the handler builds the session
\* and awaits its save
CreateVotingDeactivate(r) ==
  /\ inflight[r].pc = "deactivate"
  /\ sessions' = DeactivateAll(sessions)
  /\ inflight' = [inflight EXCEPT ![r].pc = "save-session"]
  /\ UNCHANGED <<companies, votes, adminTokens, issued, companySeq, now, res>>

\* newVoting.save() completes (the random id is modelled as the next unused
\* number, drawn when the document is inserted)
CreateVotingSave(r) ==
  /\ inflight[r].pc = "save-session"
  /\ IF SaveRejects(inflight[r].body)
       THEN /\ res' = CreateReply(inflight[r].auth, inflight[r].body, 500, "Server error")
            /\ UNCHANGED sessions
       ELSE /\ sessions' = Append(sessions, NewVoting(inflight[r].body, Len(sessions) + 1))
            /\ res' = CreateReply(inflight[r].auth, inflight[r].body, 200,
                                  "Global voting session created successfully")
  /\ inflight' = [inflight EXCEPT ![r] = Idle]
  /\ UNCHANGED <<companies, votes, adminTokens, issued, companySeq, now>>

\* toggle up to `await VotingSession.findOne`
ToggleStart(r, h, votingSessionId) ==
  /\ inflight[r].pc = "idle"
  /\ IF ~authenticateAdmin(h, adminTokens)
       THEN res' = Unauthorized("toggle", h) /\ UNCHANGED inflight
       ELSE /\ inflight' = [inflight EXCEPT ![r] =
                              [pc |-> "find-session", auth |-> h,
                               votingSessionId |-> votingSessionId]]
            /\ UNCHANGED res
  /\ UNCHANGED <<db, adminTokens, issued, companySeq, now>>

\* findOne returns; the handler flips isActive on its copy and awaits save
ToggleFind(r) ==
  /\ inflight[r].pc = "find-session"
  /\ LET i == FindSession(sessions, inflight[r].votingSessionId)
     IN  IF i = 0
           THEN /\ res' = Reply("toggle", inflight[r].auth, 404, "Voting session not found")
                /\ inflight' = [inflight EXCEPT ![r] = Idle]
           ELSE /\ inflight' = [inflight EXCEPT ![r] =
                                  [pc |-> "save-toggle", auth |-> inflight[r].auth,
                                   votingSessionId |-> inflight[r].votingSessionId,
                                   isActive |-> ~sessions[i].isActive]]
                /\ UNCHANGED res
  /\ UNCHANGED <<db, adminTokens, issued, companySeq, now>>

\* session.save() writes the modified isActive
ToggleSave(r) ==
  /\ inflight[r].pc = "save-toggle"
  /\ LET i == FindSession(sessions, inflight[r].votingSessionId)
     IN  sessions' = [sessions EXCEPT ![i].isActive = inflight[r].isActive]
  /\ res' = Reply("toggle", inflight[r].auth, 200, "Voting session toggled")
  /\ inflight' = [inflight EXCEPT ![r] = Idle]
  /\ UNCHANGED <<companies, votes, adminTokens, issued, companySeq, now>>

\* delete-company up to `await Company.findOne`
DeleteStart(r, h, companyId) ==
  /\ inflight[r].pc = "idle"
  /\ IF ~authenticateAdmin(h, adminTokens)
       THEN res' = Unauthorized("delete-company", h) /\ UNCHANGED inflight
       ELSE /\ inflight' = [inflight EXCEPT ![r] =
                              [pc |-> "find-company", auth |-> h, companyId |-> companyId]]
            /\ UNCHANGED res
  /\ UNCHANGED <<db, adminTokens, issued, companySeq, now>>

\* Company.findOne returns; the handler awaits Vote.deleteMany
DeleteFind(r) ==
  /\ inflight[r].pc = "find-company"
  /\ IF ~HasCompany(companies, inflight[r].companyId)
       THEN /\ res' = Reply("delete-company", inflight[r].auth, 404, "Company not found")
            /\ inflight' = [inflight EXCEPT ![r] = Idle]
       ELSE /\ inflight' = [inflight EXCEPT ![r].pc = "delete-votes"]
            /\ UNCHANGED res
  /\ UNCHANGED <<db, adminTokens, issued, companySeq, now>>

\* Vote.deleteMany({ companyId }) runs; the handler awaits Company.deleteOne
DeleteVotes(r) ==
  /\ inflight[r].pc = "delete-votes"
  /\ votes' = SelectSeq(votes, LAMBDA v : v.companyId # inflight[r].companyId)
  /\ inflight' = [inflight EXCEPT ![r].pc = "delete-company"]
  /\ UNCHANGED <<companies, sessions, adminTokens, issued, companySeq, now, res>>

\* Company.deleteOne({ id: companyId }) runs and the handler answers 200
DeleteCompanyDoc(r) ==
  /\ inflight[r].pc = "delete-company"
  /\ companies' = SelectSeq(companies, LAMBDA c : c.id # inflight[r].companyId)
  /\ res' = Reply("delete-company", inflight[r].auth, 200,
                  "Company and all related votes deleted successfully")
  /\ inflight' = [inflight EXCEPT ![r] = Idle]
  /\ UNCHANGED <<sessions, votes, adminTokens, issued, companySeq, now>>

(***************************************************************************)
(* The state after the process has started on an empty database.           *)
(***************************************************************************)
Init ==
  /\ companies = <<>>
  /\ sessions = <<>>
  /\ votes = <<>>
  /\ adminTokens = {}
  /\ issued = {}
  /\ companySeq = 0
  /\ now = 0
  /\ inflight = [r \in Slots |-> Idle]
  /\ res = Reply("none", NoHeader, 0, "")

(***************************************************************************)
(* Request inputs.                                                         *)
(***************************************************************************)
\* "Bearer <token 1>", the header of an admin who has logged in
AdminHeader == Header(1, 1)

Section(id, label, type, required, options, hasMin, min, hasMax, max) ==
  [id |-> id, label |-> label, type |-> type, required |-> required,
   options |-> options, hasMin |-> hasMin, minSelections |-> min,
   hasMax |-> hasMax, maxSelections |-> max]

Body(title, sections) == [title |-> title, hasSections |-> TRUE, sections |-> sections]

HostSection == Section("host", "Host", "single-select", "true", <<"A", "B">>, FALSE, 0, FALSE, 0)
CommentSection == Section("comment", "Comment", "text-input", "false", <<>>, FALSE, 0, FALSE, 0)

\* the session of the scenario: who hosts, and an optional comment
HostPoll == Body("Host poll", <<HostSection, CommentSection>>)

VoteBody(companyId, votingSessionId, deviceId, answers) ==
  [companyId |-> companyId, votingSessionId |-> votingSessionId,
   deviceId |-> deviceId, hasVotes |-> TRUE, votes |-> answers]

Devices == {"d1", "d2"}

(***************************************************************************)
(* SpecThrottle: POST /api/vote requests handled one at a time, on a       *)
(* clock that advances between and during requests.                        *)
(***************************************************************************)
ThrottleBodies ==
  {VoteBody(1, sid, d, [host |-> Str("A")]) : sid \in {1, 2}, d \in Devices}

NextThrottle ==
  \/ Login(ADMIN_PASSWORD)
  \/ CreateCompany(AdminHeader, "Acme")
  \/ CreateVoting(AdminHeader, HostPoll)
  \/ \E b \in ThrottleBodies : Pending = {} /\ VoteStart(1, b)
  \/ VoteCompany(1)
  \/ VoteSession(1)
  \/ VoteThrottle(1)
  \/ VoteSave(1)
  \/ \E u \in Times : Tick(u)

SpecThrottle == Init /\ [][NextThrottle]_vars

\* the stored votes of a device in a session
VotesOfDevice(deviceId, votingSessionId) ==
  {i \in DOMAIN votes : /\ votes[i].deviceId = deviceId
                        /\ votes[i].votingSessionId = votingSessionId}

\* C1: when vote requests are handled one at a time, no two stored votes of
\* the same device in the same session have timestamps less than three
\* hours apart.
C1_RevoteThrottle ==
  \A i, j \in DOMAIN votes :
    (/\ i < j
     /\ votes[i].deviceId = votes[j].deviceId
     /\ votes[i].votingSessionId = votes[j].votingSessionId)
    => votes[j].timestamp - votes[i].timestamp >= ThreeHours

\* a device has voted twice in one session
C1_Witness ==
  \E i, j \in DOMAIN votes :
    /\ i < j
    /\ votes[i].deviceId = votes[j].deviceId
    /\ votes[i].votingSessionId = votes[j].votingSessionId

\* the step of handler r in which Vote.findOne returns, for a device whose
\* only stored vote in the session is vote i
ThrottleStepAfterOneVote(r, i) ==
  /\ inflight[r].pc = "throttle"
  /\ inflight'[r].pc # "throttle"
  /\ VotesOfDevice(inflight[r].body.deviceId, inflight[r].body.votingSessionId) = {i}

\* handler r answered 429 with the given timeLeft
Throttled(r, timeLeft) ==
  /\ inflight'[r] = Idle
  /\ res'.op = "vote" /\ res'.status = 429 /\ res'.timeLeft = timeLeft

\* handler r went on to validate the answers
PassedThrottle(r) == inflight'[r].pc = "save" \/ (res'.op = "vote" /\ res'.status = 400)

\* C4 as stated: with t the time of the submission (the clock when the
\* cutoff t - 3h is computed) and t0 the timestamp of the device's only
\* vote, the submission is rejected when t0 >= t - 3h with
\* timeLeft = ceil((t0 + 3h - t) / 1 minute), and passes when t0 < t - 3h.
C4_AsStated ==
  [][\A r \in Slots : \A i \in DOMAIN votes :
       ThrottleStepAfterOneVote(r, i) =>
         LET t0 == votes[i].timestamp
             t == inflight[r].threeHoursAgo + ThreeHours
         IN  /\ t0 >= t - ThreeHours => Throttled(r, Ceil(t0 + ThreeHours - t, OneMinute))
             /\ t0 < t - ThreeHours => PassedThrottle(r)]_vars

\* C4, amended: the submission is rejected when t0 >= t - 3h and passes when
\* t0 < t - 3h, with t the clock when the cutoff is computed; when rejected,
\* timeLeft = ceil((t0 + 3h - t2) / 1 minute) with t2 >= t the clock when the
\* recent-vote query has returned.  A submission at t0 + 1h whose query
\* returns within MaxLatency is rejected with timeLeft = 120, and one at
\* t0 + 3h + 1s passes.
C4_ThrottleTiming ==
  [][\A r \in Slots : \A i \in DOMAIN votes :
       ThrottleStepAfterOneVote(r, i) =>
         LET t0 == votes[i].timestamp
             t == inflight[r].threeHoursAgo + ThreeHours
             t2 == now
         IN  /\ t0 >= t - ThreeHours => Throttled(r, Ceil(t0 + ThreeHours - t2, OneMinute))
             /\ t0 < t - ThreeHours => PassedThrottle(r)
             /\ (t = t0 + OneHour /\ t2 - t <= MaxLatency) => Throttled(r, 120)
             /\ t = t0 + ThreeHours + OneSecond => PassedThrottle(r)]_vars

\* a submission one hour after the device's vote has been answered 429 with
\* timeLeft = 120
C4_Witness ==
  /\ res.op = "vote" /\ res.status = 429 /\ res.timeLeft = 120
  /\ \E i \in DOMAIN votes : now - votes[i].timestamp >= OneHour

(***************************************************************************)
(* Spec: the handlers interleaved at their awaits, two at a time.          *)
(***************************************************************************)
SpecBodies == {VoteBody(1, sid, "d1", [host |-> Str("A")]) : sid \in {1, 2}}

Next ==
  \/ Login(ADMIN_PASSWORD)
  \/ CreateCompany(AdminHeader, "Acme")
  \/ \E r \in Slots : CreateVotingStart(r, AdminHeader, HostPoll)
  \/ \E r \in Slots : CreateVotingDeactivate(r)
  \/ \E r \in Slots : CreateVotingSave(r)
  \/ \E r \in Slots, sid \in {1, 2} : ToggleStart(r, AdminHeader, sid)
  \/ \E r \in Slots : ToggleFind(r)
  \/ \E r \in Slots : ToggleSave(r)
  \/ \E r \in Slots : DeleteStart(r, AdminHeader, 1)
  \/ \E r \in Slots : DeleteFind(r)
  \/ \E r \in Slots : DeleteVotes(r)
  \/ \E r \in Slots : DeleteCompanyDoc(r)
  \/ \E r \in Slots, b \in SpecBodies : VoteStart(r, b)
  \/ \E r \in Slots : VoteCompany(r)
  \/ \E r \in Slots : VoteSession(r)
  \/ \E r \in Slots : VoteThrottle(r)
  \/ \E r \in Slots : VoteSave(r)
  \/ Tick(ThreeHours + OneSecond)

Spec == Init /\ [][Next]_vars

ActiveSessions == {i \in DOMAIN sessions : sessions[i].isActive}

\* C2: in every reachable state at most one stored voting session has
\* isActive = true.
C2_AtMostOneActive == Cardinality(ActiveSessions) <= 1

\* C10: a handler that has run the recent-vote query without finding a vote
\* saves its vote whatever has been stored since, so that two handlers of the
\* same device and session that both run the query before either saves are
\* both accepted (the state of C10_Witness).
C10_ThrottleRace ==
  [][\A r \in Slots :
       (inflight[r].pc = "save" /\ inflight'[r].pc # "save") =>
         /\ votes' = Append(votes, inflight[r].newVote)
         /\ res'.op = "vote" /\ res'.status = 200]_vars

\* two stored votes of one device in one session less than three hours apart
C10_Witness ==
  \E i, j \in DOMAIN votes :
    /\ i < j
    /\ votes[i].deviceId = votes[j].deviceId
    /\ votes[i].votingSessionId = votes[j].votingSessionId
    /\ votes[j].timestamp - votes[i].timestamp < ThreeHours
    /\ votes[i].timestamp - votes[j].timestamp < ThreeHours

(***************************************************************************)
(* SpecAdmin: every admin operation, one request at a time, with any       *)
(* Authorization header and any password.                                  *)
(***************************************************************************)
\* no header, "", "Bearer ", and up to two "Bearer " before a token text;
\* token MaxTokens + 1 is never minted
AuthHeaders ==
  {NoHeader} \cup {Header(b, k) : b \in 0..2, k \in 0..(MaxTokens + 1)}

Passwords == {ADMIN_PASSWORD, "guess", ""}

AdminBodies == {HostPoll, Body("", <<HostSection>>)}

AdminVoteBodies == {VoteBody(1, 1, d, [host |-> Str("A")]) : d \in Devices}

NextAdmin ==
  \/ \E pw \in Passwords : Login(pw)
  \/ \E h \in AuthHeaders : Verify(h)
  \/ \E h \in AuthHeaders, name \in {"", "Acme"} : CreateCompany(h, name)
  \/ \E h \in AuthHeaders : ListCompanies(h)
  \/ \E h \in AuthHeaders, cid \in {1, 2} : DeleteCompany(h, cid)
  \/ \E h \in AuthHeaders, b \in AdminBodies : CreateVoting(h, b)
  \/ \E h \in AuthHeaders, sid \in {1, 2} : Toggle(h, sid)
  \/ \E h \in AuthHeaders, sid \in {1, 2} : ResetVoting(h, sid)
  \/ \E h \in AuthHeaders : Stats(h)
  \/ \E b \in AdminVoteBodies : Vote(b)

SpecAdmin == Init /\ [][NextAdmin]_vars

AdminOps == {"verify", "create-company", "list-companies", "delete-company",
             "create-voting", "toggle", "reset-voting", "stats"}

\* the token text a header presents once "Bearer " is removed: 0 for none
PresentedToken(h) ==
  IF h.present /\ StripBearer(h).bearer = 0 THEN StripBearer(h).tok ELSE 0

\* C3: an admin operation is executed only if the request presents a token
\* an earlier successful login returned; every other admin request is
\* answered 401; a request answered 401 leaves companies, sessions, votes
\* and the token set unchanged; only a login with the right password adds a
\* token, so a login with a wrong password issues none.
C3_AdminGating ==
  [][/\ res'.op \in AdminOps =>
          IF PresentedToken(res'.auth) \in issued
            THEN res'.status # 401
            ELSE res'.status = 401
     /\ res'.status = 401 => UNCHANGED <<db, adminTokens, issued>>
     /\ (companies' # companies \/ sessions' # sessions \/ Len(votes') < Len(votes)) =>
          /\ res'.op \in AdminOps /\ res'.status # 401
          /\ PresentedToken(res'.auth) \in issued
     /\ <<adminTokens, issued>>' # <<adminTokens, issued>> =>
          /\ res'.op = "login" /\ res'.password = ADMIN_PASSWORD
          /\ adminTokens' = issued']_vars

\* with data stored, an admin request presenting a token no login returned
\* has been answered 401
C3_Witness ==
  /\ res.op \in AdminOps /\ res.status = 401
  /\ PresentedToken(res.auth) # 0 /\ PresentedToken(res.auth) \notin issued
  /\ issued # {} /\ companies # <<>> /\ sessions # <<>> /\ votes # <<>>

(***************************************************************************)
(* SpecCreate: create-voting on an empty collection, with request bodies   *)
(* of zero or one section drawn from every combination of the fields       *)
(* below.                                                                  *)
(***************************************************************************)
CreateSections ==
  {Section(id, "Acts", type, "undefined", options, mn[1], mn[2], mx[1], mx[2]) :
     id \in {"", "acts"},
     type \in {"single-select", "multi-select", "text-input", "ranking"},
     options \in {<<>>, <<"">>, <<"A">>},
     mn \in {<<FALSE, 0>>, <<TRUE, 0>>, <<TRUE, 2>>},
     mx \in {<<FALSE, 0>>, <<TRUE, 0>>, <<TRUE, 1>>, <<TRUE, 3>>}}

CreateBodies ==
  {Body("Poll", <<s>>) : s \in CreateSections}
    \cup {Body("", <<HostSection>>), Body("Poll", <<>>),
          [title |-> "Poll", hasSections |-> FALSE, sections |-> <<>>]}

NextCreate ==
  \/ \E pw \in Passwords : Login(pw)
  \/ \E h \in {NoHeader, AdminHeader}, b \in CreateBodies :
       sessions = <<>> /\ CreateVoting(h, b)

SpecCreate == Init /\ [][NextCreate]_vars

\* a section of a request body that breaks the section invariant
BreaksSectionInvariant(s) ==
  \/ s.type = "multi-select" /\ s.hasMin /\ s.hasMax /\ s.minSelections > s.maxSelections
  \/ IsSelect(s.type) /\ Len(s.options) = 0

\* C9: a create-voting request with a multi-select section given
\* minSelections > maxSelections, or a select section without options, is
\* rejected with 400 and stores nothing, and every stored select section has
\* a non-empty options list.
C9_SectionInvariant ==
  [][/\ (/\ res'.op = "create-voting"
         /\ \E i \in DOMAIN res'.body.sections :
              BreaksSectionInvariant(res'.body.sections[i]))
          => res'.status \in {400, 401} /\ sessions' = sessions
     /\ \A i \in DOMAIN sessions' : \A j \in DOMAIN sessions'[i].sections :
          IsSelect(sessions'[i].sections[j].type) =>
            Len(sessions'[i].sections[j].options) > 0]_vars

(***************************************************************************)
(* SpecVote: votes of two devices, one request at a time, on one session   *)
(* per run, of every section type, with well-formed and malformed answers. *)
(***************************************************************************)
ActsSection == Section("acts", "Acts", "multi-select", "true", <<"A", "B", "C">>, TRUE, 1, TRUE, 2)
RequiredComment == Section("comment", "Comment", "text-input", "true", <<>>, FALSE, 0, FALSE, 0)
\* option names that are array indices, defined in descending order
TableSection == Section("table", "Table", "single-select", "false", <<"2", "1">>, FALSE, 0, FALSE, 0)
ExtrasSection == Section("extras", "Extras", "multi-select", "false", <<"A">>, TRUE, 0, TRUE, 1)
\* a maxSelections below zero, which create-voting does not reject
OpenSection == Section("open", "Open", "multi-select", "false", <<"A">>, FALSE, 0, TRUE, 0 - 1)

ActsPoll == Body("Acts poll", <<ActsSection, RequiredComment>>)
TablePoll == Body("Table poll", <<TableSection, ExtrasSection>>)
OpenPoll == Body("Open poll", <<OpenSection>>)

VotePolls == {HostPoll, ActsPoll, TablePoll, OpenPoll}

\* the answer maps submitted for each poll
HostAnswers ==
  {[host |-> h, comment |-> c] :
     h \in {Absent, Str("A"), Str("B"), Str("Z")},
     c \in {Absent, Str(" "), Str("great!"), Num(5)}}
ActsAnswers ==
  {[acts |-> a, comment |-> c] :
     a \in {Absent, Str("A"), List(<<>>), List(<<"A">>), List(<<"A", "B">>),
            List(<<"A", "A">>), List(<<"A", "Z">>), List(<<"A", "B", "C">>)},
     c \in {Absent, Str(" "), Str(" ok ")}}
TableAnswers ==
  {[table |-> t, extras |-> e] :
     t \in {Absent, Str("1"), Str("2")},
     e \in {Absent, List(<<>>), List(<<"A">>), List(<<"A", "A">>)}}
OpenAnswers == {[open |-> o] : o \in {Absent, List(<<>>), List(<<"A">>)}}

\* a client answers the sections of the poll it is shown
AnswersFor(ss) ==
  IF ss = <<>> THEN {[host |-> Str("A")]}
  ELSE CASE ss[1].title = "Host poll" -> HostAnswers
         [] ss[1].title = "Acts poll" -> ActsAnswers
         [] ss[1].title = "Table poll" -> TableAnswers
         [] OTHER -> OpenAnswers

VoteBodies ==
  {VoteBody(1, 1, d, a) : d \in Devices, a \in AnswersFor(sessions)}
    \cup {[companyId |-> 1, votingSessionId |-> 1, deviceId |-> "d1",
           hasVotes |-> FALSE, votes |-> <<>>],
          VoteBody(1, 1, "", [host |-> Str("A")]),
          VoteBody(1, 2, "d1", [host |-> Str("A")]),
          VoteBody(2, 1, "d1", [host |-> Str("A")])}

NextVote ==
  \/ Login(ADMIN_PASSWORD)
  \/ CreateCompany(AdminHeader, "Acme")
  \/ \E b \in VotePolls : sessions = <<>> /\ CreateVoting(AdminHeader, b)
  \/ \E b \in VoteBodies : Vote(b)
  \/ \E sid \in {1, 2} : GetResults(sid)
  \/ \E sid \in {1, 2} : GetCompanyResults(sid, 1)

SpecVote == Init /\ [][NextVote]_vars

\* the step is a POST /api/vote, answered in res', of a device that may
\* vote now, for an existing company and active session i
VoteReachesValidation(i) ==
  /\ res'.op = "vote"
  /\ res'.body.deviceId # ""
  /\ HasCompany(companies, res'.body.companyId)
  /\ i = FindActiveSession(sessions, res'.body.votingSessionId)
  /\ i # 0
  /\ RecentVote(votes, res'.body.deviceId, res'.body.votingSessionId, now - ThreeHours) = 0

\* C5: a submission (existing company, eligible device) without an answer
\* for a required section of the active session is rejected with 400 and no
\* vote is stored; when the submission carries an answer map and that
\* section is the first one failing, the message names that section's label.
C5_RequiredSections ==
  [][\A i \in DOMAIN sessions : \A j \in DOMAIN sessions[i].sections :
       LET section == sessions[i].sections[j]
           answers == res'.body.votes
       IN  (/\ VoteReachesValidation(i)
            /\ section.required
            /\ Answer(answers, section.id) = Absent)
           => /\ res'.status = 400
              /\ votes' = votes
              /\ (/\ res'.body.hasVotes
                  /\ \A k \in 1..(j - 1) :
                       VoteSectionError(sessions[i].sections[k],
                                        Answer(answers, sessions[i].sections[k].id)) = "ok")
                 => /\ res'.label = section.label
                    /\ res'.msg \in {"Please provide a value for",
                                     "Please select at least one option for"}]_vars

\* a submission whose first section passes has been rejected for the missing
\* answer of the required second section
C5_Witness ==
  /\ res.op = "vote" /\ res.status = 400
  /\ res.msg = "Please provide a value for" /\ res.label = "Comment"
  /\ Answer(res.body.votes, "comment") = Absent
  /\ Answer(res.body.votes, "acts") = List(<<"A", "B">>)

\* the lists of at most three names a client may submit
Names == {"A", "B", "C", "Z"}
ListAnswers == UNION {[1..k -> Names] : k \in 0..3}

\* the multi-select check accepts list l for the section exactly when its
\* length is within the section's bounds and every element names an option
AcceptsWithinBounds(section, l) ==
  TypeError(section, List(l)) = "ok"
    <=> /\ section.minSelections <= Len(l)
        /\ Len(l) <= section.maxSelections
        /\ \A k \in DOMAIN l : \E o \in DOMAIN section.options : section.options[o] = l[k]

\* C6: for every stored multi-select section with minSelections <=
\* maxSelections (sections never change once stored), the multi-select check
\* accepts a list answer if and only if its length is within
\* [minSelections, maxSelections] and every element is the name of an option
\* of the section; with minSelections = 1 and maxSelections = 2 a submitted
\* list of 0 or 3 options is rejected with 400 and nothing is stored, and a
\* list of 1 or 2 valid options is not rejected at that section.
C6_MultiSelectBounds ==
  [][/\ sessions' # sessions =>
          \A i \in DOMAIN sessions' : \A j \in DOMAIN sessions'[i].sections :
            LET section == sessions'[i].sections[j]
            IN  (section.type = "multi-select" /\ section.minSelections <= section.maxSelections)
                => \A l \in ListAnswers : AcceptsWithinBounds(section, l)
     /\ \A i \in DOMAIN sessions : \A j \in DOMAIN sessions[i].sections :
          LET section == sessions[i].sections[j]
              answer == Answer(res'.body.votes, section.id)
          IN  (/\ VoteReachesValidation(i)
               /\ res'.body.hasVotes
               /\ section.type = "multi-select"
               /\ section.minSelections = 1 /\ section.maxSelections = 2
               /\ answer.t = "list")
              => /\ Len(answer.l) \in {0, 3} => res'.status = 400 /\ votes' = votes
                 /\ (/\ Len(answer.l) \in {1, 2}
                     /\ \A k \in DOMAIN answer.l :
                          \E o \in DOMAIN section.options : section.options[o] = answer.l[k])
                    => \/ res'.status = 200 /\ Len(votes') = Len(votes) + 1
                       \/ res'.status = 400 /\ res'.label # section.label]_vars

\* a vote with two valid options of a section with bounds 1..2 is stored, and
\* the last submission, of three options, has been rejected
C6_Witness ==
  /\ \E i \in DOMAIN votes : Answer(votes[i].votes, "acts") = List(<<"A", "B">>)
  /\ res.op = "vote" /\ res.status = 400 /\ res.msg = "Please select at most"
  /\ Answer(res.body.votes, "acts") = List(<<"A", "B", "C">>)

\* the votes the results endpoints count for an option: single-select
\* answers equal to the name, and elements of multi-select lists equal to it
RECURSIVE ReferenceVotes(_, _, _)
ReferenceVotes(section, vs, name) ==
  IF vs = <<>> THEN 0
  ELSE LET answer == Answer(vs[Len(vs)].votes, section.id)
           here == IF section.type = "single-select"
                     THEN IF answer = Str(name) THEN 1 ELSE 0
                   ELSE IF answer.t = "list"
                     THEN Cardinality({k \in DOMAIN answer.l : answer.l[k] = name})
                   ELSE 0
       IN  ReferenceVotes(section, SubSeq(vs, 1, Len(vs) - 1), name) + here

\* out lists every defined option once, with its reference count, by
\* descending count and, among equal counts, in definition order
IsReferenceOptions(out, section, vs) ==
  /\ Len(out) = Len(section.options)
  /\ \E perm \in [DOMAIN out -> DOMAIN section.options] :
       /\ \A p, q \in DOMAIN out : p # q => perm[p] # perm[q]
       /\ \A p \in DOMAIN out :
            /\ out[p].name = section.options[perm[p]]
            /\ out[p].votes = ReferenceVotes(section, vs, out[p].name)
       /\ \A p, q \in DOMAIN out :
            p < q => \/ out[p].votes > out[q].votes
                     \/ out[p].votes = out[q].votes /\ perm[p] < perm[q]

\* the non-blank text responses of a section, in vote order
RECURSIVE ReferenceResponses(_, _)
ReferenceResponses(section, vs) ==
  IF vs = <<>> THEN <<>>
  ELSE LET answer == Answer(vs[Len(vs)].votes, section.id)
           front == ReferenceResponses(section, SubSeq(vs, 1, Len(vs) - 1))
       IN  IF answer.t = "str" /\ answer.s \notin {"", " "}
             THEN Append(front, answer.s) ELSE front

\* a tally answered for a session and a list of considered votes is the
\* reference tally
IsReferenceTally(reply, votingSession, vs) ==
  reply.status = 200 =>
    /\ reply.totalVotes = Len(vs)
    /\ \A j \in DOMAIN votingSession.sections :
         LET section == votingSession.sections[j]
         IN  IF section.type = "text-input"
               THEN [k \in DOMAIN reply.results[j].responses |->
                       reply.results[j].responses[k].response]
                      = ReferenceResponses(section, vs)
               ELSE IsReferenceOptions(reply.results[j].options, section, vs)

\* C7: the tally of both results endpoints is the reference tally: every
\* defined option with its count, by descending count with ties in
\* definition order; the non-blank text responses in vote order; totalVotes
\* the number of votes considered.
C7_TallyIsReference ==
  \A i \in DOMAIN sessions :
    /\ IsReferenceTally(Results(sessions[i].id), sessions[i],
                        VotesOfSession(votes, sessions[i].id))
    /\ \A c \in DOMAIN companies :
         IsReferenceTally(CompanyResults(sessions[i].id, companies[c].id), sessions[i],
                          VotesOfCompany(votes, sessions[i].id, companies[c].id))

RECURSIVE SumVotes(_)
SumVotes(options) ==
  IF options = <<>> THEN 0
  ELSE SumVotes(SubSeq(options, 1, Len(options) - 1)) + options[Len(options)].votes

\* maxSelections for a multi-select section, 1 for a single-select section
PerVote(section) ==
  IF section.type = "multi-select" THEN section.maxSelections ELSE 1

\* the bound holds for section j of session i in the session-wide tally
TallyBound(i, j) ==
  LET reply == Results(sessions[i].id)
  IN  reply.status = 200 =>
        SumVotes(reply.results[j].options)
          <= reply.totalVotes * PerVote(sessions[i].sections[j])

\* C8 as stated: for every select-type section of every session, the sum of
\* option.votes is at most totalVotes * m.
C8_AsStated ==
  \A i \in DOMAIN sessions : \A j \in DOMAIN sessions[i].sections :
    IsSelect(sessions[i].sections[j].type) => TallyBound(i, j)

\* C8, amended: the bound holds for every select-type section whose
\* maxSelections is not negative.
C8_TallyBound ==
  \A i \in DOMAIN sessions : \A j \in DOMAIN sessions[i].sections :
    (/\ IsSelect(sessions[i].sections[j].type)
     /\ PerVote(sessions[i].sections[j]) >= 0) => TallyBound(i, j)

\* two votes of two selections each are tallied for a section with
\* maxSelections = 2: the bound is reached
C8_Witness ==
  \E i \in DOMAIN sessions : \E j \in DOMAIN sessions[i].sections :
    /\ sessions[i].sections[j].type = "multi-select"
    /\ sessions[i].sections[j].maxSelections = 2
    /\ Results(sessions[i].id).status = 200
    /\ Results(sessions[i].id).totalVotes = 2
    /\ SumVotes(Results(sessions[i].id).results[j].options) = 4

\* the slots whose delete-company handler has not answered yet
PendingDeletes ==
  {r \in Slots : inflight[r].pc \in {"find-company", "delete-votes", "delete-company"}}

\* C11: in every reachable state in which no delete-company request is in
\* progress, the companyId of every stored vote is the id of a stored
\* company, also when vote handlers interleave with a delete-company handler.
C11_VotesHaveCompany ==
  PendingDeletes = {} =>
    \A i \in DOMAIN votes : HasCompany(companies, votes[i].companyId)

\* C12: for the votes stored through POST /api/vote, the results endpoints
\* of every stored session answer with a tally and never with 500, and every
\* stored answer of a text-input section that the tally trims is a string.
C12_TallyCompletes ==
  \A i \in DOMAIN sessions :
    /\ Results(sessions[i].id).status = 200
    /\ \A c \in DOMAIN companies :
         CompanyResults(sessions[i].id, companies[c].id).status = 200
    /\ \A v \in DOMAIN votes : \A j \in DOMAIN sessions[i].sections :
         LET sectionVote == Answer(votes[v].votes, sessions[i].sections[j].id)
         IN  (/\ votes[v].votingSessionId = sessions[i].id
              /\ sessions[i].sections[j].type = "text-input"
              /\ Truthy(sectionVote)) => sectionVote.t = "str"

\* the considered vote documents whose answer for the section contains the
\* option: equal to its name, or a list with an element equal to it
VotesContaining(section, vs, name) ==
  {v \in DOMAIN vs :
     LET answer == Answer(vs[v].votes, section.id)
     IN  \/ answer = Str(name)
         \/ answer.t = "list" /\ \E k \in DOMAIN answer.l : answer.l[k] = name}

\* C13: for every select-type section of every stored session and every
\* option of its tally, option.votes is the number of considered vote
\* documents whose answer contains that option, hence at most totalVotes.
C13_OncePerOption ==
  \A i \in DOMAIN sessions : \A j \in DOMAIN sessions[i].sections :
    LET section == sessions[i].sections[j]
        reply == Results(sessions[i].id)
        vs == VotesOfSession(votes, sessions[i].id)
    IN  (IsSelect(section.type) /\ reply.status = 200) =>
          \A o \in DOMAIN reply.results[j].options :
            LET option == reply.results[j].options[o]
            IN  /\ option.votes <= reply.totalVotes
                /\ option.votes = Cardinality(VotesContaining(section, vs, option.name))

====
